---- MODULE Spec2Model ----
(***************************************************************************)
(* Stroke-Guesser (src/index.tsx): the round/guess state machine of the    *)
(* App component, its pointer handlers and its button handlers.            *)
(*                                                                         *)
(* Every React state hook of App is a variable.  A handler runs to         *)
(* completion and React re-renders before the next discrete event, so one  *)
(* handler invocation is one action.  The `disabled` attributes of the     *)
(* controls are the guards of the Click actions; the handlers themselves   *)
(* are separate definitions (handleX) that hold only what the handler's    *)
(* own code does.                                                          *)
(***************************************************************************)
EXTENDS Integers, Sequences, FiniteSets, TLC

\* ------------------------------------------------------------ constants
MIN_STROKE == 2
MAX_STROKE == 50
MAX_GUESSES == 3

\* ------------------------------------------------------------ bounds
\* most points recorded in one Drawing, over all its strokes
MaxPointsTotal == 3
\* winCount is capped so that the state space is finite
MaxWins == 2

\* ------------------------------------------------------------ inputs
\* Math.random() returns a real in [0, 1); the samples are n / RandomScale
RandomScale == 100
RandomSamples == {0, 50, 99}

\* the values the range input can deliver (integers of [MIN_STROKE, MAX_STROKE])
SliderValues == {16, 26, 36}

\* pointer ids of the pointer events
Pointers == {1, 2}

\* canvas-local points delivered by getPointInCanvas
PointInputs == {[x |-> 3, y |-> 4]}

\* outcomes of the asynchronous part of an export
ExportOutcomes == {"encode_failed", "shared", "share_aborted", "share_error", "downloaded"}

VARIABLES
    mounted,            \* the mount effect (startNewRound on mount) has run
    targetStrokeWidth,
    guessStrokeWidth,
    feedback,           \* [message, type]
    isRoundOver,
    guessesLeft,
    paths,              \* Point[][]
    isDrawing,
    hasDrawnInRound,
    winCount,
    pressed,            \* the pointers that are physically down
    exportPending,      \* the image handed to toBlob whose callback has not run
    exportResult,       \* what the callback of the latest export did
    canvas,             \* the poly-lines on the on-screen canvas
    observed,           \* the paths and width the ResizeObserver callback closes over
    session,            \* the pointer that created the last stroke and is down since, or 0
    strokePointers      \* the pointers whose events put points into the last stroke

vars == <<mounted, targetStrokeWidth, guessStrokeWidth, feedback, isRoundOver,
          guessesLeft, paths, isDrawing, hasDrawnInRound, winCount, pressed,
          exportPending, exportResult, canvas, observed, session,
          strokePointers>>

roundVars == <<targetStrokeWidth, guessStrokeWidth, feedback, isRoundOver, guessesLeft>>
drawVars == <<paths, isDrawing, hasDrawnInRound>>
exportVars == <<exportPending, exportResult>>
surfaceVars == <<canvas, observed>>
strokeVars == <<session, strokePointers>>

NoExport == [kind |-> "none"]

\* ------------------------------------------------------------ helpers
RECURSIVE PointCount(_)
\* the number of points of a Drawing
PointCount(ps) == IF Len(ps) = 0 THEN 0 ELSE Len(Head(ps)) + PointCount(Tail(ps))

VisiblePath(path) == Len(path) >= 2

\* what drawPaths leaves on a cleared surface: one poly-line per path of at
\* least two points, at lineWidth strokeWidth
drawPaths(ps, strokeWidth) ==
    LET visible == SelectSeq(ps, VisiblePath) IN
    [i \in 1..Len(visible) |-> [points |-> visible[i], lineWidth |-> strokeWidth]]

Abs(n) == IF n < 0 THEN -n ELSE n

\* Math.floor((MIN_STROKE + MAX_STROKE) / 2)
MidStroke == (MIN_STROKE + MAX_STROKE) \div 2

\* RandomTarget with Math.round in place of Math.floor
RandomTarget_Round(n) ==
    ((2 * n * (MAX_STROKE - MIN_STROKE + 1) + RandomScale) \div (2 * RandomScale)) + MIN_STROKE

\* Math.floor(Math.random() * (MAX_STROKE - MIN_STROKE + 1)) + MIN_STROKE
RandomTarget(n) == ((n * (MAX_STROKE - MIN_STROKE + 1)) \div RandomScale) + MIN_STROKE

NoFeedback == [message |-> "", type |-> ""]

SuccessFeedback(target) ==
    [message |-> "You got it! It was " \o ToString(target) \o "px.", type |-> "success"]

OutOfGuessesFeedback(target) ==
    [message |-> "Out of guesses! The answer was " \o ToString(target) \o "px.",
     type |-> "hint"]

\* HintFeedback with the tier test diff >= 10
HintFeedback_TierAtTen(guess, target) ==
    LET diff == Abs(guess - target) IN
    IF guess > target
    THEN [message |-> IF diff >= 10 THEN "Way too thick!" ELSE "A little too thick.",
          type |-> "hint"]
    ELSE [message |-> IF diff >= 10 THEN "Way too thin!" ELSE "A little too thin.",
          type |-> "hint"]

\* the hint of an incorrect guess that leaves guesses
HintFeedback(guess, target) ==
    LET diff == Abs(guess - target) IN
    IF guess > target
    THEN [message |-> IF diff > 10 THEN "Way too thick!" ELSE "A little too thick.",
          type |-> "hint"]
    ELSE [message |-> IF diff > 10 THEN "Way too thin!" ELSE "A little too thin.",
          type |-> "hint"]

\* ------------------------------------------------------------ initial state
Init ==
    /\ mounted = FALSE
    /\ targetStrokeWidth = 0
    /\ guessStrokeWidth = MidStroke
    /\ feedback = NoFeedback
    /\ isRoundOver = FALSE
    /\ guessesLeft = MAX_GUESSES
    /\ paths = <<>>
    /\ isDrawing = FALSE
    /\ hasDrawnInRound = FALSE
    /\ winCount = 0
    /\ pressed = {}
    /\ exportPending = NoExport
    /\ exportResult = NoExport
    /\ canvas = <<>>
    /\ observed = [paths |-> <<>>, strokeWidth |-> 0]
    /\ session = 0
    /\ strokePointers = {}

\* ------------------------------------------------------------ handlers
\* startNewRound that also starts the win tally again
startNewRound_ResetsWins(n) ==
    /\ paths' = <<>>
    /\ isRoundOver' = FALSE
    /\ feedback' = NoFeedback
    /\ hasDrawnInRound' = FALSE
    /\ guessesLeft' = MAX_GUESSES
    /\ targetStrokeWidth' = RandomTarget(n)
    /\ guessStrokeWidth' = MidStroke
    /\ winCount' = 0
    /\ UNCHANGED isDrawing

startNewRound(n) ==
    /\ paths' = <<>>
    /\ isRoundOver' = FALSE
    /\ feedback' = NoFeedback
    /\ hasDrawnInRound' = FALSE
    /\ guessesLeft' = MAX_GUESSES
    /\ targetStrokeWidth' = RandomTarget(n)
    /\ guessStrokeWidth' = MidStroke
    /\ UNCHANGED <<isDrawing, winCount>>

\* handlePointerDown that starts the Drawing again with the new stroke
handlePointerDown_ClearsPrior(pt) ==
    IF isRoundOver \/ isDrawing
    THEN UNCHANGED <<roundVars, drawVars, winCount>>
    ELSE /\ isDrawing' = TRUE
         /\ paths' = <<<<pt>>>>
         /\ hasDrawnInRound' = TRUE
         /\ UNCHANGED <<roundVars, winCount>>

handlePointerDown(pt) ==
    IF isRoundOver \/ isDrawing
    THEN UNCHANGED <<roundVars, drawVars, winCount>>
    ELSE /\ isDrawing' = TRUE
         /\ paths' = Append(paths, <<pt>>)
         /\ hasDrawnInRound' = TRUE
         /\ UNCHANGED <<roundVars, winCount>>

\* handlePointerMove without the isRoundOver test
handlePointerMove_IgnoresRoundOver(pt) ==
    IF ~isDrawing
    THEN UNCHANGED <<roundVars, drawVars, winCount>>
    ELSE /\ paths' = IF Len(paths) = 0
                     THEN <<>>
                     ELSE [paths EXCEPT ![Len(paths)] = Append(@, pt)]
         /\ UNCHANGED <<roundVars, isDrawing, hasDrawnInRound, winCount>>

handlePointerMove(pt) ==
    IF ~isDrawing \/ isRoundOver
    THEN UNCHANGED <<roundVars, drawVars, winCount>>
    ELSE /\ paths' = IF Len(paths) = 0
                     THEN <<>>
                     ELSE [paths EXCEPT ![Len(paths)] = Append(@, pt)]
         /\ UNCHANGED <<roundVars, isDrawing, hasDrawnInRound, winCount>>

\* handlePointerUp without setIsDrawing(false)
handlePointerUp_KeepsDrawing ==
    UNCHANGED <<roundVars, drawVars, winCount>>

handlePointerUp ==
    IF ~isDrawing
    THEN UNCHANGED <<roundVars, drawVars, winCount>>
    ELSE /\ isDrawing' = FALSE
         /\ UNCHANGED <<roundVars, paths, hasDrawnInRound, winCount>>

\* handleClearDrawing without setHasDrawnInRound(false)
handleClearDrawing_KeepsHasDrawn ==
    /\ paths' = <<>>
    /\ UNCHANGED <<roundVars, isDrawing, hasDrawnInRound, winCount>>

\* handleClearDrawing that also gives the guesses back
handleClearDrawing_ResetsGuesses ==
    /\ paths' = <<>>
    /\ hasDrawnInRound' = FALSE
    /\ guessesLeft' = MAX_GUESSES
    /\ UNCHANGED <<targetStrokeWidth, guessStrokeWidth, feedback, isRoundOver,
                   isDrawing, winCount>>

handleClearDrawing ==
    /\ paths' = <<>>
    /\ hasDrawnInRound' = FALSE
    /\ UNCHANGED <<roundVars, isDrawing, winCount>>

\* handleCheckGuess that spends the guess before it compares: a correct last
\* guess is reported as out of guesses
handleCheckGuess_CountsFirst ==
    LET newGuessesLeft == guessesLeft - 1 IN
    IF newGuessesLeft = 0
    THEN /\ guessesLeft' = newGuessesLeft
         /\ feedback' = OutOfGuessesFeedback(targetStrokeWidth)
         /\ isRoundOver' = TRUE
         /\ UNCHANGED <<targetStrokeWidth, guessStrokeWidth, winCount, drawVars>>
    ELSE IF guessStrokeWidth = targetStrokeWidth
    THEN /\ feedback' = SuccessFeedback(targetStrokeWidth)
         /\ isRoundOver' = TRUE
         /\ winCount' = winCount + 1
         /\ UNCHANGED <<targetStrokeWidth, guessStrokeWidth, guessesLeft, drawVars>>
    ELSE /\ guessesLeft' = newGuessesLeft
         /\ feedback' = HintFeedback(guessStrokeWidth, targetStrokeWidth)
         /\ UNCHANGED <<targetStrokeWidth, guessStrokeWidth, isRoundOver, winCount, drawVars>>

\* handleCheckGuess that tests the stale guessesLeft for the end of the round
handleCheckGuess_StaleGuessesLeft ==
    IF guessStrokeWidth = targetStrokeWidth
    THEN /\ feedback' = SuccessFeedback(targetStrokeWidth)
         /\ isRoundOver' = TRUE
         /\ winCount' = winCount + 1
         /\ UNCHANGED <<targetStrokeWidth, guessStrokeWidth, guessesLeft, drawVars>>
    ELSE LET newGuessesLeft == guessesLeft - 1 IN
         /\ guessesLeft' = newGuessesLeft
         /\ IF guessesLeft = 0
            THEN /\ feedback' = OutOfGuessesFeedback(targetStrokeWidth)
                 /\ isRoundOver' = TRUE
            ELSE /\ feedback' = HintFeedback(guessStrokeWidth, targetStrokeWidth)
                 /\ UNCHANGED isRoundOver
         /\ UNCHANGED <<targetStrokeWidth, guessStrokeWidth, winCount, drawVars>>

\* handleCheckGuess whose success branch leaves the round open
handleCheckGuess_WinKeepsRoundOpen ==
    IF guessStrokeWidth = targetStrokeWidth
    THEN /\ feedback' = SuccessFeedback(targetStrokeWidth)
         /\ winCount' = winCount + 1
         /\ UNCHANGED <<targetStrokeWidth, guessStrokeWidth, guessesLeft, isRoundOver,
                        drawVars>>
    ELSE LET newGuessesLeft == guessesLeft - 1 IN
         /\ guessesLeft' = newGuessesLeft
         /\ IF newGuessesLeft = 0
            THEN /\ feedback' = OutOfGuessesFeedback(targetStrokeWidth)
                 /\ isRoundOver' = TRUE
            ELSE /\ feedback' = HintFeedback(guessStrokeWidth, targetStrokeWidth)
                 /\ UNCHANGED isRoundOver
         /\ UNCHANGED <<targetStrokeWidth, guessStrokeWidth, winCount, drawVars>>

handleCheckGuess ==
    IF guessStrokeWidth = targetStrokeWidth
    THEN /\ feedback' = SuccessFeedback(targetStrokeWidth)
         /\ isRoundOver' = TRUE
         /\ winCount' = winCount + 1
         /\ UNCHANGED <<targetStrokeWidth, guessStrokeWidth, guessesLeft, drawVars>>
    ELSE LET newGuessesLeft == guessesLeft - 1 IN
         /\ guessesLeft' = newGuessesLeft
         /\ IF newGuessesLeft = 0
            THEN /\ feedback' = OutOfGuessesFeedback(targetStrokeWidth)
                 /\ isRoundOver' = TRUE
            ELSE /\ feedback' = HintFeedback(guessStrokeWidth, targetStrokeWidth)
                 /\ UNCHANGED isRoundOver
         /\ UNCHANGED <<targetStrokeWidth, guessStrokeWidth, winCount, drawVars>>

\* the synchronous part: the image is composed and handed to toBlob
handleExportDrawing ==
    IF Len(paths) = 0
    THEN UNCHANGED exportPending
    ELSE exportPending' = [kind |-> "image",
                           strokes |-> drawPaths(paths, targetStrokeWidth),
                           text |-> "I guessed the stroke!"]

\* ------------------------------------------------------------ controls
\* the Check Guess button without the !hasDrawnInRound test
CheckGuessDisabled_IgnoresDrawing == isRoundOver \/ guessesLeft = 0

CheckGuessDisabled == isRoundOver \/ ~hasDrawnInRound \/ guessesLeft = 0
ClearDisabled == Len(paths) = 0 \/ isRoundOver
\* the range input without its disabled attribute
SliderDisabled_Never == FALSE

SliderDisabled == isRoundOver
NextRoundDisabled == ~isRoundOver
ExportDisabled == ~isRoundOver \/ Len(paths) = 0

\* ------------------------------------------------------------ effects
\* The redraw effect and the resize effect have the dependencies
\* [paths, targetStrokeWidth]: after a render that changed one of them the
\* canvas is redrawn and the ResizeObserver is replaced by one whose callback
\* closes over the new values.
RenderEffects ==
    IF paths' # paths \/ targetStrokeWidth' # targetStrokeWidth
    THEN /\ canvas' = drawPaths(paths', targetStrokeWidth')
         /\ observed' = [paths |-> paths', strokeWidth |-> targetStrokeWidth']
    ELSE UNCHANGED <<canvas, observed>>

\* the last stroke is gone when the Drawing is emptied
ForgetStrokeIfCleared ==
    IF paths' = <<>>
    THEN session' = 0 /\ strokePointers' = {}
    ELSE UNCHANGED strokeVars

\* what the toBlob callback does with the encoded image
ExportCallback(outcome, image) ==
    CASE outcome = "encode_failed" ->
            [kind |-> "logged", message |-> "Failed to create blob from canvas"]
      [] outcome \in {"shared", "downloaded"} ->
            [kind |-> "file", name |-> "i-guessed-the-stroke.jpg", image |-> image]
      [] outcome = "share_aborted" ->
            [kind |-> "ignored"]
      [] outcome = "share_error" ->
            [kind |-> "logged", message |-> "Share API error:"]

\* ------------------------------------------------------------ actions
\* the effects of the first render, the last of them
\* useEffect(() => startNewRound(), [startNewRound]), and those of the render
\* that follows it
Mount ==
    /\ ~mounted
    /\ mounted' = TRUE
    /\ \E n \in RandomSamples : startNewRound(n)
    /\ canvas' = drawPaths(paths', targetStrokeWidth')
    /\ observed' = [paths |-> paths', strokeWidth |-> targetStrokeWidth']
    /\ UNCHANGED <<pressed, exportVars, strokeVars>>

PointerDown(p, pt) ==
    /\ mounted
    /\ p \notin pressed
    /\ ~(isRoundOver \/ isDrawing) => PointCount(paths) < MaxPointsTotal
    /\ pressed' = pressed \cup {p}
    /\ handlePointerDown(pt)
    /\ IF Len(paths') > Len(paths)
       THEN session' = p /\ strokePointers' = {p}
       ELSE UNCHANGED strokeVars
    /\ RenderEffects
    /\ UNCHANGED <<mounted, exportVars>>

PointerMove(p, pt) ==
    /\ mounted
    /\ ~(~isDrawing \/ isRoundOver) => PointCount(paths) < MaxPointsTotal
    /\ handlePointerMove(pt)
    /\ strokePointers' = IF paths' # paths THEN strokePointers \cup {p} ELSE strokePointers
    /\ RenderEffects
    /\ UNCHANGED <<mounted, pressed, exportVars, session>>

PointerUp(p) ==
    /\ mounted
    /\ p \in pressed
    /\ pressed' = pressed \ {p}
    /\ handlePointerUp
    /\ session' = IF session = p THEN 0 ELSE session
    /\ RenderEffects
    /\ UNCHANGED <<mounted, exportVars, strokePointers>>

ClickClear ==
    /\ mounted
    /\ ~ClearDisabled
    /\ handleClearDrawing
    /\ ForgetStrokeIfCleared
    /\ RenderEffects
    /\ UNCHANGED <<mounted, pressed, exportVars>>

ChangeSlider(v) ==
    /\ mounted
    /\ ~SliderDisabled
    /\ v # guessStrokeWidth
    /\ guessStrokeWidth' = v
    /\ UNCHANGED <<mounted, targetStrokeWidth, feedback, isRoundOver, guessesLeft,
                   drawVars, winCount, pressed, exportVars, surfaceVars, strokeVars>>

ClickCheckGuess ==
    /\ mounted
    /\ ~CheckGuessDisabled
    /\ guessStrokeWidth = targetStrokeWidth => winCount < MaxWins
    /\ handleCheckGuess
    /\ RenderEffects
    /\ UNCHANGED <<mounted, pressed, exportVars, strokeVars>>

ClickNextRound ==
    /\ mounted
    /\ ~NextRoundDisabled
    /\ \E n \in RandomSamples : startNewRound(n)
    /\ ForgetStrokeIfCleared
    /\ RenderEffects
    /\ UNCHANGED <<mounted, pressed, exportVars>>

ClickExport ==
    /\ mounted
    /\ ~ExportDisabled
    /\ exportPending = NoExport
    /\ handleExportDrawing
    /\ exportResult' = NoExport
    /\ UNCHANGED <<mounted, roundVars, drawVars, winCount, pressed, surfaceVars,
                   strokeVars>>

\* a toBlob callback that reports a failure to the player
ExportSettle_ShowsError(outcome) ==
    /\ exportPending # NoExport
    /\ exportPending' = NoExport
    /\ exportResult' = ExportCallback(outcome, exportPending)
    /\ feedback' = IF outcome \in {"encode_failed", "share_error"}
                   THEN [message |-> "Export failed.", type |-> "hint"]
                   ELSE feedback
    /\ UNCHANGED <<mounted, targetStrokeWidth, guessStrokeWidth, isRoundOver,
                   guessesLeft, drawVars, winCount, pressed, surfaceVars, strokeVars>>

\* a toBlob callback that encodes the Drawing and the target of the moment
\* it runs
ExportSettle_RendersLate(outcome) ==
    /\ exportPending # NoExport
    /\ exportPending' = NoExport
    /\ exportResult' = ExportCallback(outcome,
                           [kind |-> "image",
                            strokes |-> drawPaths(paths, targetStrokeWidth),
                            text |-> "I guessed the stroke!"])
    /\ UNCHANGED <<mounted, roundVars, drawVars, winCount, pressed, surfaceVars,
                   strokeVars>>

\* the toBlob callback with its share or download: no branch of it calls a
\* state setter
ExportSettle(outcome) ==
    /\ exportPending # NoExport
    /\ exportPending' = NoExport
    /\ exportResult' = ExportCallback(outcome, exportPending)
    /\ UNCHANGED <<mounted, roundVars, drawVars, winCount, pressed, surfaceVars,
                   strokeVars>>

\* the ResizeObserver callback without its redraw: the buffer stays empty
Resize_NoRedraw ==
    /\ mounted
    /\ canvas' = <<>>
    /\ UNCHANGED <<mounted, roundVars, drawVars, winCount, pressed, exportVars,
                   observed, strokeVars>>

\* the ResizeObserver callback: setting the width and height empties the
\* buffer, then the paths of its closure are drawn at the width of its
\* closure.  The size of the buffer is not kept: App reads it only to give
\* the export canvas the same size.
Resize ==
    /\ mounted
    /\ canvas' = drawPaths(observed.paths, observed.strokeWidth)
    /\ UNCHANGED <<mounted, roundVars, drawVars, winCount, pressed, exportVars,
                   observed, strokeVars>>

Next ==
    \/ Mount
    \/ \E p \in Pointers, pt \in PointInputs : PointerDown(p, pt)
    \/ \E p \in Pointers, pt \in PointInputs : PointerMove(p, pt)
    \/ \E p \in Pointers : PointerUp(p)
    \/ ClickClear
    \/ \E v \in SliderValues : ChangeSlider(v)
    \/ ClickCheckGuess
    \/ ClickNextRound
    \/ ClickExport
    \/ \E o \in ExportOutcomes : ExportSettle(o)
    \/ Resize

Spec == Init /\ [][Next]_vars

\* ------------------------------------------------------------ operations
\* The operations of the round state machine invoked as functions, without
\* the controls in front of them.
CallClearDrawing ==
    /\ mounted
    /\ handleClearDrawing
    /\ ForgetStrokeIfCleared
    /\ RenderEffects
    /\ UNCHANGED <<mounted, pressed, exportVars>>

CallStartNewRound ==
    /\ mounted
    /\ \E n \in RandomSamples : startNewRound(n)
    /\ ForgetStrokeIfCleared
    /\ RenderEffects
    /\ UNCHANGED <<mounted, pressed, exportVars>>

OpNext ==
    \/ Next
    \/ CallClearDrawing
    \/ CallStartNewRound

OpSpec == Init /\ [][OpNext]_vars

\* ------------------------------------------------------------ claims
\* a startNewRound step of the application: the mount effect or Next Round
StartNewRoundStep == Mount \/ ClickNextRound

\* C1: a check with guessStrokeWidth equal to targetStrokeWidth sets the
\* success feedback that names the target, ends the round and adds exactly 1
\* to winCount, whatever guessesLeft is when the check is accepted.
C1_CorrectGuessWins ==
    [][(ClickCheckGuess /\ guessStrokeWidth = targetStrokeWidth) =>
          /\ feedback' = [message |-> "You got it! It was "
                                       \o ToString(targetStrokeWidth) \o "px.",
                          type |-> "success"]
          /\ isRoundOver' = TRUE
          /\ winCount' = winCount + 1]_vars

\* a round won on its last remaining guess
C1_Witness ==
    /\ isRoundOver
    /\ feedback.type = "success"
    /\ guessesLeft = 1
    /\ winCount >= 1

\* C2: a check with guessStrokeWidth different from targetStrokeWidth takes
\* exactly 1 from guessesLeft and never takes it below 0; the third incorrect
\* check of a round (the one that finds MAX_GUESSES - 2 = 1 guess left) ends
\* the round with a hint that reveals the target.
C2_IncorrectGuessSpendsOne ==
    [][(ClickCheckGuess /\ guessStrokeWidth # targetStrokeWidth) =>
          /\ guessesLeft' = guessesLeft - 1
          /\ guessesLeft' >= 0
          /\ guessesLeft = MAX_GUESSES - 2 =>
                /\ isRoundOver' = TRUE
                /\ feedback' = [message |-> "Out of guesses! The answer was "
                                             \o ToString(targetStrokeWidth) \o "px.",
                                type |-> "hint"]]_vars

\* a round lost by its third incorrect check
C2_Witness ==
    /\ isRoundOver
    /\ guessesLeft = 0
    /\ feedback.type = "hint"
    /\ guessStrokeWidth # targetStrokeWidth

\* C3: isRoundOver turns true exactly in a check that finds the guess equal
\* to the target or that takes guessesLeft to 0, and it turns false again only
\* in startNewRound.
C3_RoundOverExactly ==
    [][/\ (~isRoundOver /\ isRoundOver') <=>
             (ClickCheckGuess /\ (guessStrokeWidth = targetStrokeWidth \/ guessesLeft' = 0))
       /\ (isRoundOver /\ ~isRoundOver') => ClickNextRound]_vars

\* a finished round in which an export was started and a pointer is down
C3_Witness ==
    /\ isRoundOver
    /\ exportPending # NoExport
    /\ pressed # {}

\* C4: guessesLeft rises only in startNewRound, which sets it to MAX_GUESSES;
\* every other step leaves it or lowers it.
C4_GuessesOnlyDecrease ==
    [][/\ guessesLeft' > guessesLeft => (ClickNextRound /\ guessesLeft' = MAX_GUESSES)
       /\ StartNewRoundStep => guessesLeft' = MAX_GUESSES
       /\ ~StartNewRoundStep => guessesLeft' <= guessesLeft]_vars

\* a new round after a round that was lost with 0 guesses left, and a check
\* already spent in it
C4_Witness ==
    /\ ~isRoundOver
    /\ winCount = 0
    /\ exportPending # NoExport
    /\ guessesLeft = MAX_GUESSES - 1

\* a step that shows the effect of an accepted check: a guess is spent, a win
\* is counted, or a feedback message is set
CheckEffect ==
    \/ guessesLeft' < guessesLeft
    \/ winCount' # winCount
    \/ (feedback' # feedback /\ feedback' # NoFeedback)

\* C5: a check takes effect only when the round is not over and the Drawing
\* holds at least one point; after clearDrawing the check is rejected (no
\* step with a check's effect) until a stroke with a point is recorded.
C5_CheckNeedsDrawing ==
    [][CheckEffect => (~isRoundOver /\ PointCount(paths) >= 1)]_vars

\* the Drawing was cleared after a check of this round and nothing has been
\* drawn since: Check Guess is disabled
C5_Witness ==
    /\ mounted
    /\ ~isRoundOver
    /\ guessesLeft < MAX_GUESSES
    /\ paths = <<>>
    /\ CheckGuessDisabled

\* C6: an incorrect check that leaves guesses sets a hint: "thick" when the
\* guess is above the target and "thin" when below, "Way too" when they differ
\* by more than 10 and "A little too" otherwise (so also at exactly 10).
C6_HintDirectionAndTier ==
    [][(ClickCheckGuess /\ guessStrokeWidth # targetStrokeWidth /\ guessesLeft' > 0) =>
          /\ feedback'.type = "hint"
          /\ feedback'.message =
                IF guessStrokeWidth > targetStrokeWidth
                THEN (IF guessStrokeWidth - targetStrokeWidth > 10
                      THEN "Way too thick!" ELSE "A little too thick.")
                ELSE (IF targetStrokeWidth - guessStrokeWidth > 10
                      THEN "Way too thin!" ELSE "A little too thin.")]_vars

\* a hint for a guess exactly 10 above the target
C6_Witness ==
    /\ ~isRoundOver
    /\ guessStrokeWidth - targetStrokeWidth = 10
    /\ feedback = [message |-> "A little too thick.", type |-> "hint"]

\* C7: startNewRound, from any state, leaves an empty Drawing, the round not
\* over, no feedback, MAX_GUESSES guesses, the has-drawn flag cleared, a
\* target in [MIN_STROKE, MAX_STROKE] and the guess at 26.
C7_StartNewRoundResets ==
    [][(Mount \/ ClickNextRound \/ CallStartNewRound) =>
          /\ paths' = <<>>
          /\ isRoundOver' = FALSE
          /\ feedback' = [message |-> "", type |-> ""]
          /\ guessesLeft' = MAX_GUESSES
          /\ hasDrawnInRound' = FALSE
          /\ targetStrokeWidth' \in MIN_STROKE..MAX_STROKE
          /\ guessStrokeWidth' = 26]_vars

\* a fresh round with the largest target, after a round that was won
C7_Witness ==
    /\ winCount >= 1
    /\ ~isRoundOver
    /\ paths = <<>>
    /\ guessesLeft = MAX_GUESSES
    /\ feedback = NoFeedback
    /\ targetStrokeWidth = MAX_STROKE

\* C8: in every reachable state, the initial one included, the target and
\* the guess are integers of [MIN_STROKE, MAX_STROKE] and guessesLeft is an
\* integer of [0, MAX_GUESSES].
C8_RangesAlways ==
    /\ targetStrokeWidth \in MIN_STROKE..MAX_STROKE
    /\ guessStrokeWidth \in MIN_STROKE..MAX_STROKE
    /\ guessesLeft \in 0..MAX_GUESSES

\* C9: the clearDrawing operation invoked while the round is over is
\* rejected: it leaves the Drawing and the has-drawn flag as they are.
C9_ClearRejectedWhenOver ==
    [][(CallClearDrawing /\ isRoundOver) => UNCHANGED <<paths, hasDrawnInRound>>]_vars

\* C10: once the round is over guessStrokeWidth changes only in
\* startNewRound.
C10_GuessFrozenWhenOver ==
    [][(isRoundOver /\ guessStrokeWidth' # guessStrokeWidth) => ClickNextRound]_vars

\* a finished round whose guess was moved off the midpoint before it ended,
\* with the export settled and every pointer released
C10_Witness ==
    /\ isRoundOver
    /\ guessStrokeWidth # MidStroke
    /\ exportPending = NoExport
    /\ pressed = {}
    /\ winCount = MaxWins

\* C11: winCount changes only in a check that finds the guess equal to the
\* target: startNewRound, clear, the slider, drawing, export and an incorrect
\* check leave it.  It never decreases, and the step that adds to it adds 1
\* and ends the round, so that a round adds at most 1.
C11_WinCountPersists ==
    [][/\ winCount' >= winCount
       /\ winCount' # winCount =>
             /\ ClickCheckGuess
             /\ guessStrokeWidth = targetStrokeWidth
             /\ winCount' = winCount + 1
             /\ ~isRoundOver /\ isRoundOver'
       /\ (isRoundOver /\ ~isRoundOver') => ClickNextRound]_vars

\* two wins kept into a third round, in which an incorrect check was made
C11_Witness ==
    /\ winCount = 2
    /\ ~isRoundOver
    /\ guessesLeft < MAX_GUESSES
    /\ feedback.type = "hint"

\* C12: every point of a stroke comes from the pointer whose pointer-down
\* created it: the events of one pointer only put points into the last
\* stroke.
C12_StrokeOfOnePointer ==
    Cardinality(strokePointers) <= 1

\* stroke longer extends stroke shorter by points at its end
Extends(longer, shorter) ==
    /\ Len(longer) > Len(shorter)
    /\ SubSeq(longer, 1, Len(shorter)) = shorter

\* C13: a step changes a recorded stroke only by appending to the last
\* stroke, and only while the pointer that created it is still in the
\* session that began with that pointer-down (after its pointer-up the stroke
\* is never changed); strokes disappear only all together, in clearDrawing or
\* startNewRound.
C13_StrokeClosedAfterPointerUp ==
    [][/\ session # 0 => session \in pressed
       /\ (paths # <<>> /\ paths' = <<>>) => (ClickClear \/ ClickNextRound)
       /\ paths' # <<>> =>
             /\ Len(paths') >= Len(paths)
             /\ \A i \in 1..Len(paths) :
                   \/ paths'[i] = paths[i]
                   \/ /\ i = Len(paths)
                      /\ Len(paths') = Len(paths)
                      /\ Extends(paths'[i], paths[i])
                      /\ session # 0
                      /\ session \in pressed]_vars

\* a stroke whose pointer was released, followed by a stroke of two points
\* that is still being drawn
C13_Witness ==
    /\ Len(paths) = 2
    /\ Len(paths[2]) = 2
    /\ session # 0
    /\ isDrawing

\* C14: neither the Export click nor the completion of the export, whatever
\* its outcome, changes the round state (feedback included, so no error is
\* shown), the Drawing or winCount.
C14_ExportLeavesGame ==
    [][(ClickExport \/ \E o \in ExportOutcomes : ExportSettle(o)) =>
          UNCHANGED <<targetStrokeWidth, guessStrokeWidth, guessesLeft, isRoundOver,
                      feedback, paths, isDrawing, hasDrawnInRound, winCount>>]_vars

\* a won round whose export ended in a logged share error
C14_Witness ==
    /\ exportResult = [kind |-> "logged", message |-> "Share API error:"]
    /\ isRoundOver
    /\ feedback.type = "success"
    /\ paths # <<>>

\* C15: once mounted, and so after every resize however it is interleaved
\* with drawing, clear and round actions, the canvas shows the render of the
\* current Drawing at the current targetStrokeWidth.
C15_CanvasShowsDrawing ==
    mounted => canvas = drawPaths(paths, targetStrokeWidth)

\* a visible stroke on the canvas at the target width, with a second stroke
\* begun; the ResizeObserver callback can run here and leads back to this state
C15_Witness ==
    /\ mounted
    /\ Len(paths) = 2
    /\ Len(canvas) = 1
    /\ canvas[1].lineWidth = targetStrokeWidth
    /\ observed.paths = paths
    /\ ENABLED Resize

\* C16: a pointer-down is accepted exactly when the round is not over and no
\* stroke is in progress (isDrawing is false); an accepted one appends one
\* stroke that holds the pressed point and nothing else to the end of the
\* Drawing, every earlier stroke staying in place unchanged; a rejected one
\* leaves the Drawing, and nothing else adds a stroke.
C16_PointerDownAppendsStroke ==
    [][/\ \A p \in Pointers, pt \in PointInputs :
             PointerDown(p, pt) =>
                IF ~isRoundOver /\ ~isDrawing
                THEN paths' = paths \o << <<pt>> >>
                ELSE paths' = paths
       /\ Len(paths') > Len(paths) =>
             /\ ~isRoundOver /\ ~isDrawing
             /\ \E p \in Pointers, pt \in PointInputs : PointerDown(p, pt)]_vars

\* a stroke of two points followed by a stroke just begun by a pointer-down
C16_Witness ==
    /\ Len(paths) = 2
    /\ Len(paths[1]) = 2
    /\ paths[2] \in {<<pt>> : pt \in PointInputs}
    /\ isDrawing
    /\ hasDrawnInRound

\* C17: in every reachable state hasDrawnInRound is true exactly when the
\* Drawing holds at least one stroke.
C17_HasDrawnIffStrokes ==
    hasDrawnInRound <=> (Len(paths) >= 1)

\* the Drawing was cleared, by Clear or by Next Round, while a pointer is
\* still down and isDrawing is still true
C17_Witness ==
    /\ paths = <<>>
    /\ ~hasDrawnInRound
    /\ isDrawing
    /\ pressed # {}

\* C18: in every reachable state in which the round is over the Drawing
\* holds at least one stroke, and so the Export control is enabled.
C18_RoundOverHasDrawing ==
    isRoundOver => (Len(paths) >= 1 /\ ~ExportDisabled)

\* a round that ended with a single tap as its Drawing
C18_Witness ==
    /\ isRoundOver
    /\ Len(paths) = 1
    /\ Len(paths[1]) = 1
    /\ ~ExportDisabled

\* C19: while the round is over no pointer event and no clear changes the
\* Drawing, the moves of a stroke that was in progress when the round ended
\* included; only startNewRound changes it.
C19_DrawingFrozenWhenOver ==
    [][(isRoundOver /\ paths' # paths) => ClickNextRound]_vars

\* the round ended while the pointer that created the last stroke was down
\* and isDrawing true
C19_Witness ==
    /\ isRoundOver
    /\ isDrawing
    /\ session # 0
    /\ session \in pressed

\* C20: the exported image is fixed when Export is invoked: the click
\* composes it from the Drawing and the targetStrokeWidth of that moment, no
\* later step (Next Round, drawing, guessing, resize) alters it while the
\* encode, share or download is outstanding, and the file that is delivered
\* holds exactly that image.
C20_ExportImageFixedAtClick ==
    [][/\ ClickExport =>
             exportPending' = [kind |-> "image",
                               strokes |-> drawPaths(paths, targetStrokeWidth),
                               text |-> "I guessed the stroke!"]
       /\ (exportPending # NoExport /\ exportPending' # exportPending) =>
             exportPending' = NoExport
       /\ (exportPending # NoExport /\ exportResult' # exportResult) =>
             /\ exportPending' = NoExport
             /\ exportResult'.kind = "file" => exportResult'.image = exportPending]_vars

\* an export still outstanding after Next Round: the round is open again and
\* the image in flight differs from the render of the current Drawing
C20_Witness ==
    /\ exportPending # NoExport
    /\ ~isRoundOver
    /\ exportPending.strokes # drawPaths(paths, targetStrokeWidth)

====
